---- MODULE Spec2Model ----
(***************************************************************************)
(* Model of reth's static-file segment metadata                            *)
(* (crates/static-file/types/src/segment.rs): the StaticFileSegment file   *)
(* name codec and the SegmentHeader range state machine.                   *)
(*                                                                         *)
(* Strings are sequences of one-character strings, Option<T> is the empty  *)
(* sequence (None) or a one-element sequence (Some(v)).  u64 cannot be     *)
(* represented at its full width by TLC, so every u64 is modelled with a   *)
(* scaled-down maximum: U64_MAX in header arithmetic, NAME_U64_MAX in the  *)
(* numbers of file names.                                                  *)
(***************************************************************************)
EXTENDS Integers, Sequences, FiniteSets, TLC

VARIABLES
    \* ---- SegmentHeader (the object under mutation) ----
    expected_block_range,   \* SegmentRangeInclusive
    block_range,            \* Option<SegmentRangeInclusive>
    tx_range,               \* Option<SegmentRangeInclusive>
    segment,                \* StaticFileSegment
    overflow_checks,        \* the build: TRUE = overflow panics, FALSE = it wraps
    op,                     \* the last operation called on the header
    num,                    \* the argument of the last prune call
    ret,                    \* Option<u64>: what the last increment_block returned
    fault,                  \* "none" | "panic" | "wrap": arithmetic of the last call
    streak,                 \* increment_block calls in a row since block_range was None
    \* ---- file name codec (pure functions, applied step by step) ----
    cpc,                    \* "input" | "named" | "parsed" | "idle"
    cin,                    \* the arguments given to filename / the raw tokens
    name,                   \* the file name, a string
    parsed,                 \* Option<(StaticFileSegment, SegmentRangeInclusive)>
    \* ---- kinds and stored headers (pure functions, applied step by step) ----
    kpc,                    \* which function is given kin, or which has produced kout
    kin,                    \* the receiver or argument: a kind, a text, bytes
    kout,                   \* what the functions called so far have produced
    \* ---- DbTool::list (one call, row by row) ----
    lpc,                    \* "idle" | "call" | "walk" | "done" | "error"
    table,                  \* the rows of the table as walk(None) yields them
    filter,                 \* ListFilter
    cursor,                 \* position in the walk of the last row taken from it
    data,                   \* the rows collected so far
    hits,                   \* the match counter
    searched                \* positions of the rows handed to the searcher

hvars == <<expected_block_range, block_range, tx_range, segment, overflow_checks,
           op, num, ret, fault, streak>>
cvars == <<cpc, cin, name, parsed>>
kvars == <<kpc, kin, kout>>
lvars == <<lpc, table, filter, cursor, data, hits, searched>>
vars == <<expected_block_range, block_range, tx_range, segment, overflow_checks,
          op, num, ret, fault, streak, cpc, cin, name, parsed, kpc, kin, kout,
          lpc, table, filter, cursor, data, hits, searched>>

\* ------------------------------------------------------------------ bounds

\* Stand-in for u64::MAX (2^64 - 1) in SegmentHeader arithmetic.
U64_MAX == 2
\* Stand-in for u64::MAX in the numbers parsed out of file names.
NAME_U64_MAX == 1230
\* File-name ranges are drawn from 0..DenseNum and the numbers of the tests.
DenseNum == 11
\* Tables hold at most MaxRows rows.
MaxRows == 3
\* ListFilter.skip is drawn from 0..MaxSkip.
MaxSkip == 2
\* ListFilter.len is drawn from 0..MaxLen.
MaxLen == 2

\* ------------------------------------------------------------------ Option

None == <<>>
Some(v) == <<v>>

\* ------------------------------------------------------- StaticFileSegment

StaticFileSegment == {"Headers", "Transactions", "Receipts", "BlockMeta"}

SegmentRangeInclusive_new(start, end) == [start |-> start, end |-> end]

\* #[strum(serialize = "...")]: the string AsRefStr yields and EnumString accepts.
strum_serialize(seg) ==
    CASE seg = "Headers"      -> <<"h","e","a","d","e","r","s">>
      [] seg = "Transactions" -> <<"t","r","a","n","s","a","c","t","i","o","n","s">>
      [] seg = "Receipts"     -> <<"r","e","c","e","i","p","t","s">>
      [] seg = "BlockMeta"    -> <<"b","l","o","c","k","m","e","t","a">>

as_ref(seg) == strum_serialize(seg)

\* The name of the variant in the enum declaration.
variant_name(seg) ==
    CASE seg = "Headers"      -> <<"H","e","a","d","e","r","s">>
      [] seg = "Transactions" -> <<"T","r","a","n","s","a","c","t","i","o","n","s">>
      [] seg = "Receipts"     -> <<"R","e","c","e","i","p","t","s">>
      [] seg = "BlockMeta"    -> <<"B","l","o","c","k","M","e","t","a">>

\* derive_more::Display on a unit variant without a #[display] attribute
\* writes the variant's name; #[strum(serialize)] is not read by it.
to_string(seg) == variant_name(seg)

as_str(seg) ==
    CASE seg = "Headers"      -> <<"h","e","a","d","e","r","s">>
      [] seg = "Transactions" -> <<"t","r","a","n","s","a","c","t","i","o","n","s">>
      [] seg = "Receipts"     -> <<"r","e","c","e","i","p","t","s">>
      [] seg = "BlockMeta"    -> <<"b","l","o","c","k","m","e","t","a">>

\* Mutant: the kinds in the order of the enum declaration.
iter_in_declaration_order == <<"Headers", "Transactions", "Receipts", "BlockMeta">>

iter == <<"Headers", "BlockMeta", "Transactions", "Receipts">>

\* EnumString: an exact, case-sensitive match of a serialize string.
from_str(tok) ==
    IF \E k \in StaticFileSegment : strum_serialize(k) = tok
    THEN Some(CHOOSE k \in StaticFileSegment : strum_serialize(k) = tok)
    ELSE None

is_tx_based(seg) == seg \in {"Receipts", "Transactions"}

\* Mutant: only Headers counted as block-based.
is_block_based_headers_only(seg) == seg \in {"Headers"}

is_block_based(seg) == seg \in {"Headers", "BlockMeta"}

\* Compression::as_ref(), as the file names of the tests show it.
Compression == {"Lz4", "Zstd", "ZstdWithDictionary"}

compression_as_ref(c) ==
    CASE c = "Lz4"                -> <<"l","z","4">>
      [] c = "Zstd"               -> <<"z","s","t","d">>
      [] c = "ZstdWithDictionary" -> <<"z","s","t","d","-","d","i","c","t">>

\* ------------------------------------------------------------ u64 <-> text

Digits == <<"0","1","2","3","4","5","6","7","8","9">>

IsDigit(c) == \E d \in 1..10 : Digits[d] = c

DigitValue(c) == (CHOOSE d \in 1..10 : Digits[d] = c) - 1

\* Display for u64: decimal, no sign, no leading zeros.
RECURSIVE u64_to_string(_)
u64_to_string(n) ==
    IF n < 10 THEN <<Digits[n + 1]>>
    ELSE Append(u64_to_string(n \div 10), Digits[(n % 10) + 1])

\* The digits of str::parse::<u64>, most significant first, with checked
\* multiply-and-add: None as soon as the value passes the maximum.
RECURSIVE parse_digits(_, _)
parse_digits(ds, acc) ==
    IF ds = <<>> THEN Some(acc)
    ELSE IF ~IsDigit(ds[1]) THEN None
    ELSE LET v == acc * 10 + DigitValue(ds[1])
         IN IF v > NAME_U64_MAX THEN None ELSE parse_digits(Tail(ds), v)

\* Mutant: an empty token read as zero.
parse_u64_empty_is_zero(tok) ==
    IF tok = <<>> THEN Some(0)
    ELSE LET ds == IF tok[1] = "+" THEN Tail(tok) ELSE tok
         IN IF ds = <<>> THEN None ELSE parse_digits(ds, 0)

\* str::parse::<u64>(): empty is an error; one leading '+' is accepted, '-' is
\* not; a lone sign is an error; then only decimal digits.
parse_u64(tok) ==
    IF tok = <<>> THEN None
    ELSE LET ds == IF tok[1] = "+" THEN Tail(tok) ELSE tok
         IN IF ds = <<>> THEN None ELSE parse_digits(ds, 0)

\* -------------------------------------------------------------- the codec

static_file_ == <<"s","t","a","t","i","c","_","f","i","l","e","_">>

\* Mutant: the end written before the start.
filename_swapped(seg, range) ==
    static_file_ \o as_ref(seg) \o <<"_">> \o u64_to_string(range.end)
                 \o <<"_">> \o u64_to_string(range.start)

\* format!("static_file_{}_{}_{}", self.as_ref(), range.start(), range.end())
filename(seg, range) ==
    static_file_ \o as_ref(seg) \o <<"_">> \o u64_to_string(range.start)
                 \o <<"_">> \o u64_to_string(range.end)

\* Mutant: the filters name left out.
filename_without_filters(seg, compression, range) ==
    static_file_ \o as_ref(seg) \o <<"_">> \o u64_to_string(range.start)
                 \o <<"_">> \o u64_to_string(range.end)
                 \o <<"_">> \o compression_as_ref(compression)

\* format!("{prefix}_{}_{}", "none", compression.as_ref())
filename_with_configuration(seg, compression, range) ==
    LET prefix == filename(seg, range)
        filters_name == <<"n","o","n","e">>
    IN prefix \o <<"_">> \o filters_name \o <<"_">> \o compression_as_ref(compression)

\* name.split('_'): the substrings between separators, empty ones included.
RECURSIVE split(_)
split(s) ==
    IF \A i \in 1..Len(s) : s[i] # "_" THEN <<s>>
    ELSE LET i == CHOOSE j \in 1..Len(s) :
                      s[j] = "_" /\ \A k \in 1..(j - 1) : s[k] # "_"
         IN <<SubSeq(s, 1, i - 1)>> \o split(SubSeq(s, i + 1, Len(s)))

\* The i-th parts.next() of the iterator.
next_part(parts, i) == IF i <= Len(parts) THEN Some(parts[i]) ELSE None

\* parse_filename after the split: the tokens taken one by one with `?`.
parse_parts(parts) ==
    IF ~(next_part(parts, 1) = Some(<<"s","t","a","t","i","c">>)
         /\ next_part(parts, 2) = Some(<<"f","i","l","e">>))
    THEN None
    ELSE IF next_part(parts, 3) = None THEN None
    ELSE LET seg == from_str(parts[3])
         IN IF seg = None THEN None
            ELSE IF next_part(parts, 4) = None THEN None
            ELSE LET block_start == parse_u64(parts[4])
                 IN IF block_start = None THEN None
                    ELSE IF next_part(parts, 5) = None THEN None
                    ELSE LET block_end == parse_u64(parts[5])
                         IN IF block_end = None THEN None
                            ELSE IF block_start[1] > block_end[1] THEN None
                            ELSE Some(<<seg[1],
                                        SegmentRangeInclusive_new(block_start[1],
                                                                  block_end[1])>>)

\* Mutant: a parser that insists on exactly five tokens.
parse_filename_strict(nm) ==
    IF Len(split(nm)) # 5 THEN None ELSE parse_parts(split(nm))

parse_filename(nm) == parse_parts(split(nm))

\* ---------------------------------------------------------- u64 arithmetic

\* a + b on u64: the wrapped value and whether it overflowed.
u64_add(a, b) == [val |-> (a + b) % (U64_MAX + 1), overflow |-> a + b > U64_MAX]

\* a - b on u64: the wrapped value and whether it underflowed.
u64_sub(a, b) == [val |-> (a - b + U64_MAX + 1) % (U64_MAX + 1), overflow |-> a < b]

saturating_sub(a, b) == IF a < b THEN 0 ELSE a - b

\* ----------------------------------------------------------- SegmentHeader

SegmentHeader_new(expected, blocks, txs, seg) ==
    [expected_block_range |-> expected, block_range |-> blocks,
     tx_range |-> txs, segment |-> seg]

\* The header the variables hold.
self == SegmentHeader_new(expected_block_range, block_range, tx_range, segment)

expected_block_start(h) == h.expected_block_range.start

expected_block_end(h) == h.expected_block_range.end

\* What a call leaves behind: the header, the value returned, the arithmetic.
Done(h, r, f) == [hdr |-> h, ret |-> r, fault |-> f]

\* An overflow panic: the call is abandoned before it stores anything.
Panic(h) == Done(h, None, "panic")

Arith(overflowed) == IF overflowed THEN "wrap" ELSE "none"

\* Mutant: a fresh range started at zero instead of the expected start.
increment_block_from_zero(h) ==
    IF h.block_range # None
    THEN LET range == h.block_range[1]
             sum == u64_add(range.end, 1)
         IN IF sum.overflow /\ overflow_checks THEN Panic(h)
            ELSE Done([h EXCEPT !.block_range = Some([range EXCEPT !.end = sum.val])],
                      Some(sum.val), Arith(sum.overflow))
    ELSE Done([h EXCEPT !.block_range = Some(SegmentRangeInclusive_new(0, 0))],
              Some(0), "none")

increment_block(h) ==
    IF h.block_range # None
    THEN LET range == h.block_range[1]
             sum == u64_add(range.end, 1)
         IN IF sum.overflow /\ overflow_checks THEN Panic(h)
            ELSE Done([h EXCEPT !.block_range = Some([range EXCEPT !.end = sum.val])],
                      Some(sum.val), Arith(sum.overflow))
    ELSE Done([h EXCEPT !.block_range =
                   Some(SegmentRangeInclusive_new(expected_block_start(h),
                                                  expected_block_start(h)))],
              Some(expected_block_start(h)), "none")

\* Mutant: the kind tested with the wrong predicate.
increment_tx_wrong_guard(h) ==
    IF is_block_based(h.segment)
    THEN IF h.tx_range # None
         THEN LET range == h.tx_range[1]
                  sum == u64_add(range.end, 1)
              IN IF sum.overflow /\ overflow_checks THEN Panic(h)
                 ELSE Done([h EXCEPT !.tx_range = Some([range EXCEPT !.end = sum.val])],
                           None, Arith(sum.overflow))
         ELSE Done([h EXCEPT !.tx_range = Some(SegmentRangeInclusive_new(0, 0))],
                   None, "none")
    ELSE Done(h, None, "none")

\* Mutant: no test of the kind at all.
increment_tx_unguarded(h) ==
    IF h.tx_range # None
    THEN LET range == h.tx_range[1]
             sum == u64_add(range.end, 1)
         IN IF sum.overflow /\ overflow_checks THEN Panic(h)
            ELSE Done([h EXCEPT !.tx_range = Some([range EXCEPT !.end = sum.val])],
                      None, Arith(sum.overflow))
    ELSE Done([h EXCEPT !.tx_range = Some(SegmentRangeInclusive_new(0, 0))],
              None, "none")

\* Mutant: a fresh tx range started at the expected block start.
increment_tx_from_expected(h) ==
    IF is_tx_based(h.segment)
    THEN IF h.tx_range # None
         THEN LET range == h.tx_range[1]
                  sum == u64_add(range.end, 1)
              IN IF sum.overflow /\ overflow_checks THEN Panic(h)
                 ELSE Done([h EXCEPT !.tx_range = Some([range EXCEPT !.end = sum.val])],
                           None, Arith(sum.overflow))
         ELSE Done([h EXCEPT !.tx_range =
                        Some(SegmentRangeInclusive_new(expected_block_start(h),
                                                       expected_block_start(h)))],
                   None, "none")
    ELSE Done(h, None, "none")

increment_tx(h) ==
    IF is_tx_based(h.segment)
    THEN IF h.tx_range # None
         THEN LET range == h.tx_range[1]
                  sum == u64_add(range.end, 1)
              IN IF sum.overflow /\ overflow_checks THEN Panic(h)
                 ELSE Done([h EXCEPT !.tx_range = Some([range EXCEPT !.end = sum.val])],
                           None, Arith(sum.overflow))
         ELSE Done([h EXCEPT !.tx_range = Some(SegmentRangeInclusive_new(0, 0))],
                   None, "none")
    ELSE Done(h, None, "none")

\* Mutant: the range kept, never cleared, when more rows go than it holds.
prune_never_clears(h, n) ==
    IF is_block_based(h.segment)
    THEN IF h.block_range # None
         THEN LET range == h.block_range[1]
                  span == u64_sub(range.end, range.start)
              IN IF span.overflow /\ overflow_checks THEN Panic(h)
                 ELSE Done([h EXCEPT !.block_range =
                                Some([range EXCEPT !.end = saturating_sub(range.end, n)])],
                           None, Arith(span.overflow))
         ELSE Done(h, None, "none")
    ELSE IF h.tx_range # None
         THEN LET range == h.tx_range[1]
                  span == u64_sub(range.end, range.start)
              IN IF span.overflow /\ overflow_checks THEN Panic(h)
                 ELSE Done([h EXCEPT !.tx_range =
                                Some([range EXCEPT !.end = saturating_sub(range.end, n)])],
                           None, Arith(span.overflow))
         ELSE Done(h, None, "none")

\* Mutant: rows removed from the head of the range instead of its tail.
prune_from_head(h, n) ==
    IF is_block_based(h.segment)
    THEN IF h.block_range # None
         THEN LET range == h.block_range[1]
                  span == u64_sub(range.end, range.start)
              IN IF span.overflow /\ overflow_checks THEN Panic(h)
                 ELSE IF n > span.val
                 THEN Done([h EXCEPT !.block_range = None], None, Arith(span.overflow))
                 ELSE Done([h EXCEPT !.block_range =
                                Some([range EXCEPT !.start = u64_add(range.start, n).val])],
                           None, Arith(span.overflow))
         ELSE Done(h, None, "none")
    ELSE IF h.tx_range # None
         THEN LET range == h.tx_range[1]
                  span == u64_sub(range.end, range.start)
              IN IF span.overflow /\ overflow_checks THEN Panic(h)
                 ELSE IF n > span.val
                 THEN Done([h EXCEPT !.tx_range = None], None, Arith(span.overflow))
                 ELSE Done([h EXCEPT !.tx_range =
                                Some([range EXCEPT !.start = u64_add(range.start, n).val])],
                           None, Arith(span.overflow))
         ELSE Done(h, None, "none")

prune(h, n) ==
    IF is_block_based(h.segment)
    THEN IF h.block_range # None
         THEN LET range == h.block_range[1]
                  span == u64_sub(range.end, range.start)
              IN IF span.overflow /\ overflow_checks THEN Panic(h)
                 ELSE IF n > span.val
                 THEN Done([h EXCEPT !.block_range = None], None, Arith(span.overflow))
                 ELSE Done([h EXCEPT !.block_range =
                                Some([range EXCEPT !.end = saturating_sub(range.end, n)])],
                           None, Arith(span.overflow))
         ELSE Done(h, None, "none")
    ELSE IF h.tx_range # None
         THEN LET range == h.tx_range[1]
                  span == u64_sub(range.end, range.start)
              IN IF span.overflow /\ overflow_checks THEN Panic(h)
                 ELSE IF n > span.val
                 THEN Done([h EXCEPT !.tx_range = None], None, Arith(span.overflow))
                 ELSE Done([h EXCEPT !.tx_range =
                                Some([range EXCEPT !.end = saturating_sub(range.end, n)])],
                           None, Arith(span.overflow))
         ELSE Done(h, None, "none")

\* Mutant: the new range written over the expected range as well.
set_block_range_and_expected(h, block_start, block_end) ==
    Done([h EXCEPT !.block_range = Some(SegmentRangeInclusive_new(block_start, block_end)),
                   !.expected_block_range =
                       SegmentRangeInclusive_new(block_start, block_end)],
         None, "none")

set_block_range(h, block_start, block_end) ==
    IF h.block_range # None
    THEN Done([h EXCEPT !.block_range =
                   Some([h.block_range[1] EXCEPT !.start = block_start, !.end = block_end])],
              None, "none")
    ELSE Done([h EXCEPT !.block_range = Some(SegmentRangeInclusive_new(block_start, block_end))],
              None, "none")

set_tx_range(h, tx_start, tx_end) ==
    IF h.tx_range # None
    THEN Done([h EXCEPT !.tx_range =
                   Some([h.tx_range[1] EXCEPT !.start = tx_start, !.end = tx_end])],
              None, "none")
    ELSE Done([h EXCEPT !.tx_range = Some(SegmentRangeInclusive_new(tx_start, tx_end))],
              None, "none")

\* ------------------------------------------------- SegmentHeader accessors

block_start(h) == IF h.block_range # None THEN Some(h.block_range[1].start) ELSE None

tx_start(h) == IF h.tx_range # None THEN Some(h.tx_range[1].start) ELSE None

\* (r.end() + 1) - r.start() on an optional range, with unchecked u64 arithmetic.
range_len(h, r) ==
    IF r # None
    THEN LET sum == u64_add(r[1].end, 1)
             diff == u64_sub(sum.val, r[1].start)
         IN IF (sum.overflow \/ diff.overflow) /\ overflow_checks THEN Panic(h)
            ELSE Done(h, Some(diff.val), Arith(sum.overflow \/ diff.overflow))
    ELSE Done(h, None, "none")

tx_len(h) == range_len(h, h.tx_range)

block_len(h) == range_len(h, h.block_range)

\* Mutant: the block start returned for every kind.
start_of_blocks(h) == Done(h, block_start(h), "none")

\* SegmentHeader::start.
SegmentHeader_start(h) ==
    IF is_block_based(h.segment)
    THEN Done(h, block_start(h), "none")
    ELSE Done(h, tx_start(h), "none")

\* ------------------------------------------------- stored headers

\* The variants of StaticFileSegment in the order of the declaration: the
\* variant with index i is at position i + 1.
variants == <<"Headers", "Transactions", "Receipts", "BlockMeta">>

\* The byte sequences of test_segment_config_backwards, one number per byte.
\* hex: 010000000000000000000000000000001f... (75 bytes)
fixture_headers ==
    <<1, 0, 0, 0, 0, 0, 0, 0, 0, 0, 0, 0, 0, 0, 0, 0, 31, 161, 7, 0, 0, 0, 0,
      0, 1, 0, 0, 0, 0, 0, 0, 0, 0, 31, 161, 7, 0, 0, 0, 0, 0, 0, 0, 0, 0, 0,
      3, 0, 0, 0, 0, 0, 0, 0, 32, 161, 7, 0, 0, 0, 0, 0, 1, 1, 0, 0, 0, 74,
      2, 0, 0, 0, 0, 0, 0>>

\* hex: 010000000000000000000000000000001f... (87 bytes)
fixture_transactions ==
    <<1, 0, 0, 0, 0, 0, 0, 0, 0, 0, 0, 0, 0, 0, 0, 0, 31, 161, 7, 0, 0, 0, 0,
      0, 1, 0, 0, 0, 0, 0, 0, 0, 0, 31, 161, 7, 0, 0, 0, 0, 0, 1, 0, 0, 0, 0,
      0, 0, 0, 0, 52, 161, 7, 0, 0, 0, 0, 0, 1, 0, 0, 0, 1, 0, 0, 0, 0, 0, 0,
      0, 53, 161, 7, 0, 0, 0, 0, 0, 0, 64, 16, 0, 0, 0, 0, 0, 0>>

\* hex: 010000000000000000000000000000001f... (71 bytes)
fixture_receipts ==
    <<1, 0, 0, 0, 0, 0, 0, 0, 0, 0, 0, 0, 0, 0, 0, 0, 31, 161, 7, 0, 0, 0, 0,
      0, 1, 0, 0, 0, 0, 0, 0, 0, 0, 0, 0, 0, 0, 0, 0, 0, 0, 0, 2, 0, 0, 0, 1,
      0, 0, 0, 0, 0, 0, 0, 0, 0, 0, 0, 0, 0, 0, 0, 0, 0, 0, 0, 0, 0, 0, 0, 0>>

\* A little-endian unsigned integer of n bytes at position p.
RECURSIVE little_endian(_, _, _)
little_endian(b, p, n) ==
    IF n = 0 THEN 0 ELSE b[p] + 256 * little_endian(b, p + 1, n - 1)

Read(v, p) == [ok |-> TRUE, val |-> v, next |-> p]

Eof(p) == [ok |-> FALSE, val |-> 0, next |-> p]

\* A fixed-width integer field; reading past the end is an error.
read_uint(b, p, n) ==
    IF p + n - 1 <= Len(b) THEN Read(little_endian(b, p, n), p + n) ELSE Eof(p)

\* SegmentRangeInclusive: start, then end.
read_range(b, p) ==
    LET start == read_uint(b, p, 8)
        end == read_uint(b, start.next, 8)
    IN IF start.ok /\ end.ok
       THEN Read(SegmentRangeInclusive_new(start.val, end.val), end.next)
       ELSE Eof(p)

\* Option<SegmentRangeInclusive>: a presence byte, then the range if present.
read_option_range(b, p) ==
    LET tag == read_uint(b, p, 1)
        range == read_range(b, tag.next)
    IN IF ~tag.ok THEN Eof(p)
       ELSE IF tag.val = 0 THEN Read(None, tag.next)
       ELSE IF tag.val = 1 /\ range.ok THEN Read(Some(range.val), range.next)
       ELSE Eof(p)

\* StaticFileSegment: the index of the variant in a 4-byte word.
read_segment(b, p) ==
    LET index == read_uint(b, p, 4)
    IN IF index.ok /\ index.val < Len(variants)
       THEN Read(variants[index.val + 1], index.next)
       ELSE Eof(p)

\* Mutant: tx_range read before block_range.
read_header_tx_first(b, p) ==
    LET expected == read_range(b, p)
        txs == read_option_range(b, expected.next)
        blocks == read_option_range(b, txs.next)
        seg == read_segment(b, blocks.next)
    IN IF expected.ok /\ blocks.ok /\ txs.ok /\ seg.ok
       THEN Read(SegmentHeader_new(expected.val, blocks.val, txs.val, seg.val), seg.next)
       ELSE Eof(p)

\* SegmentHeader: its fields in the order of the struct.
read_header(b, p) ==
    LET expected == read_range(b, p)
        blocks == read_option_range(b, expected.next)
        txs == read_option_range(b, blocks.next)
        seg == read_segment(b, txs.next)
    IN IF expected.ok /\ blocks.ok /\ txs.ok /\ seg.ok
       THEN Read(SegmentHeader_new(expected.val, blocks.val, txs.val, seg.val), seg.next)
       ELSE Eof(p)

\* Option<Compressors> as the fixtures hold it: absent, or a variant without
\* payload.
read_compressor(b, p) ==
    LET tag == read_uint(b, p, 1)
        index == read_uint(b, tag.next, 4)
    IN IF ~tag.ok THEN Eof(p)
       ELSE IF tag.val = 0 THEN Read(None, tag.next)
       ELSE IF tag.val = 1 /\ index.ok THEN Read(Some(index.val), index.next)
       ELSE Eof(p)

\* NippyJar::load_from_reader followed by user_header(): the jar's version,
\* the header, then columns, rows, compressor and max_row_size.
load_from_reader(b) ==
    LET version == read_uint(b, 1, 8)
        user_header == read_header(b, version.next)
        columns == read_uint(b, user_header.next, 8)
        rows == read_uint(b, columns.next, 8)
        compressor == read_compressor(b, rows.next)
        max_row_size == read_uint(b, compressor.next, 8)
    IN IF version.ok /\ user_header.ok /\ columns.ok /\ rows.ok
          /\ compressor.ok /\ max_row_size.ok
       THEN Some(user_header.val)
       ELSE None

\* ------------------------------------------------- the header state machine

U64 == 0..U64_MAX

Ranges == {SegmentRangeInclusive_new(s, e) : s \in U64, e \in U64}

OptionRanges == {None} \cup {Some(r) : r \in Ranges}

\* The expected range of a file: well-formed, as parse_filename yields it.
ExpectedRanges == {r \in Ranges : r.start <= r.end}

\* A call's outcome stored back into the header.
Store(out, called, n) ==
    /\ expected_block_range' = out.hdr.expected_block_range
    /\ block_range' = out.hdr.block_range
    /\ tx_range' = out.hdr.tx_range
    /\ segment' = out.hdr.segment
    /\ ret' = out.ret
    /\ fault' = out.fault
    /\ op' = called
    /\ num' = n
    /\ UNCHANGED <<overflow_checks, cvars, kvars, lvars>>

CodecIdle ==
    /\ cpc = "idle"
    /\ cin = <<>>
    /\ name = <<>>
    /\ parsed = None

KindIdle ==
    /\ kpc = "idle"
    /\ kin = <<>>
    /\ kout = <<>>

ListIdle ==
    /\ lpc = "idle"
    /\ table = <<>>
    /\ filter = <<>>
    /\ cursor = 0
    /\ data = <<>>
    /\ hits = 0
    /\ searched = <<>>

\* SegmentHeader::new stores whatever it is given, unvalidated.
Init ==
    /\ expected_block_range \in ExpectedRanges
    /\ block_range \in OptionRanges
    /\ tx_range \in OptionRanges
    /\ segment \in StaticFileSegment
    /\ overflow_checks \in BOOLEAN
    /\ op = "new"
    /\ num = 0
    /\ ret = None
    /\ fault = "none"
    /\ streak = 0
    /\ CodecIdle
    /\ KindIdle
    /\ ListIdle

\* A panic ends the run: nothing is called on the header afterwards.
Alive == fault # "panic"

IncrementBlock ==
    /\ Alive
    /\ LET out == increment_block(self)
       IN /\ Store(out, "increment_block", 0)
          /\ streak' = IF out.fault # "none" THEN 0
                       ELSE IF block_range = None THEN 1
                       ELSE IF streak > 0 THEN streak + 1 ELSE 0

IncrementTx ==
    /\ Alive
    /\ Store(increment_tx(self), "increment_tx", 0)
    /\ UNCHANGED streak

Prune ==
    /\ Alive
    /\ \E n \in U64 :
          /\ Store(prune(self, n), "prune", n)
          /\ streak' = IF is_block_based(segment) THEN 0 ELSE streak

SetBlockRange ==
    /\ Alive
    /\ \E s \in U64, e \in U64 : Store(set_block_range(self, s, e), "set_block_range", 0)
    /\ streak' = 0

SetTxRange ==
    /\ Alive
    /\ \E s \in U64, e \in U64 : Store(set_tx_range(self, s, e), "set_tx_range", 0)
    /\ UNCHANGED streak

Next == IncrementBlock \/ IncrementTx \/ Prune \/ SetBlockRange \/ SetTxRange

Spec == Init /\ [][Next]_vars

\* The accessors, called on whatever header the mutators have built.
BlockLen ==
    /\ Alive
    /\ Store(block_len(self), "block_len", 0)
    /\ UNCHANGED streak

TxLen ==
    /\ Alive
    /\ Store(tx_len(self), "tx_len", 0)
    /\ UNCHANGED streak

Start ==
    /\ Alive
    /\ Store(SegmentHeader_start(self), "start", 0)
    /\ UNCHANGED streak

NextRead == Next \/ BlockLen \/ TxLen \/ Start

SpecRead == Init /\ [][NextRead]_vars

\* A header opened with no rows yet: new(expected, None, None, segment).
InitEmpty ==
    /\ Init
    /\ block_range = None
    /\ tx_range = None

BlockStart ==
    /\ Alive
    /\ Store(Done(self, block_start(self), "none"), "block_start", 0)
    /\ UNCHANGED streak

TxStart ==
    /\ Alive
    /\ Store(Done(self, tx_start(self), "none"), "tx_start", 0)
    /\ UNCHANGED streak

\* Rows appended and pruned, the starts read; set_block_range and
\* set_tx_range are never called.
NextAppend == IncrementBlock \/ IncrementTx \/ Prune \/ BlockStart \/ TxStart

SpecAppend == InitEmpty /\ [][NextAppend]_vars

\* ------------------------------------------------- the codec, step by step

\* Tokens joined by '_': the text whose split('_') they are.
RECURSIVE join(_)
join(toks) ==
    IF Len(toks) = 1 THEN toks[1]
    ELSE toks[1] \o <<"_">> \o join(Tail(toks))

\* The numbers a file-name range is drawn from.
FileNums == (0..DenseNum) \cup {30, 123, 300, NAME_U64_MAX}

FileRanges == {SegmentRangeInclusive_new(s, e) : s \in FileNums, e \in FileNums}

\* Candidate names found in a directory, token by token: good and bad prefixes,
\* segment names, numbers, and up to two trailing tokens.
PrefixTokens1 == {<<"s","t","a","t","i","c">>, <<"f","i","l","e">>, <<>>}

PrefixTokens2 == {<<"f","i","l","e">>, <<"s","t","a","t","i","c">>}

SegmentTokens ==
    {strum_serialize(k) : k \in StaticFileSegment}
        \cup {<<"H","e","a","d","e","r","s">>, <<"h","e","a","d","e","r">>, <<>>}

NumberTokens ==
    {<<>>, <<"0">>, <<"2">>, <<"3","0">>, <<"0","2">>, <<"+","2">>, <<"-","2">>,
     <<"2","x">>, <<"+">>, <<"1","2","3","1">>, <<"9","9","9","9","9">>}

RawTokens ==
    {<<a, b, k, s, e, <<"n","o","n","e">>, <<"l","z","4">>>> :
        a \in PrefixTokens1, b \in PrefixTokens2, k \in SegmentTokens,
        s \in NumberTokens, e \in NumberTokens}

\* Every non-empty prefix of the tokens: truncated names included.
RawNames == UNION {{SubSeq(t, 1, n) : n \in 1..Len(t)} : t \in RawTokens}

HeaderIdle ==
    /\ expected_block_range = SegmentRangeInclusive_new(0, 0)
    /\ block_range = None
    /\ tx_range = None
    /\ segment = "Headers"
    /\ overflow_checks = TRUE
    /\ op = "new"
    /\ num = 0
    /\ ret = None
    /\ fault = "none"
    /\ streak = 0

\* Either the arguments of filename / filename_with_configuration, or a name
\* read from the directory.
CodecInit ==
    /\ HeaderIdle
    /\ KindIdle
    /\ ListIdle
    /\ parsed = None
    /\ \/ /\ cpc = "input"
          /\ name = <<>>
          /\ \E k \in StaticFileSegment, r \in FileRanges,
                c \in {None} \cup {Some(x) : x \in Compression} :
                cin = [src |-> "args", segment |-> k, range |-> r,
                       compression |-> c, tokens |-> <<>>]
       \/ /\ cpc = "named"
          /\ \E t \in RawNames :
                /\ cin = [src |-> "raw", segment |-> "Headers",
                          range |-> SegmentRangeInclusive_new(0, 0),
                          compression |-> None, tokens |-> t]
                /\ name = join(t)

Filename ==
    /\ cpc = "input"
    /\ cin.compression = None
    /\ name' = filename(cin.segment, cin.range)
    /\ cpc' = "named"
    /\ UNCHANGED <<cin, parsed, hvars, kvars, lvars>>

FilenameWithConfiguration ==
    /\ cpc = "input"
    /\ cin.compression # None
    /\ name' = filename_with_configuration(cin.segment, cin.compression[1], cin.range)
    /\ cpc' = "named"
    /\ UNCHANGED <<cin, parsed, hvars, kvars, lvars>>

ParseFilename ==
    /\ cpc = "named"
    /\ parsed' = parse_filename(name)
    /\ cpc' = "parsed"
    /\ UNCHANGED <<cin, name, hvars, kvars, lvars>>

CodecNext == Filename \/ FilenameWithConfiguration \/ ParseFilename

SpecCodec == CodecInit /\ [][CodecNext]_vars

\* ------------------------------------------------- the kinds, step by step

\* Texts handed to from_str: the serialize strings, their proper prefixes
\* (the empty text among them) and the variant names.
KindTexts ==
    UNION {{SubSeq(strum_serialize(k), 1, n) : n \in 0..Len(strum_serialize(k))} :
             k \in StaticFileSegment}
      \cup {variant_name(k) : k \in StaticFileSegment}

\* What a reader may hold: a stored jar, whole or cut short.
Readers ==
    UNION {{SubSeq(f, 1, n) : n \in 0..Len(f)} :
             f \in {fixture_headers, fixture_transactions, fixture_receipts}}

\* A kind to convert or classify, a text to parse, a fresh iterator, or the
\* bytes of a stored jar.
KindInit ==
    /\ HeaderIdle
    /\ CodecIdle
    /\ ListIdle
    /\ \/ /\ kpc = "kind"
          /\ kin \in StaticFileSegment
          /\ kout = <<>>
       \/ /\ kpc = "text"
          /\ kin \in KindTexts
          /\ kout = <<>>
       \/ /\ kpc = "iter"
          /\ kin = iter
          /\ kout = <<>>
       \/ /\ kpc = "bytes"
          /\ kin \in Readers
          /\ kout = <<>>

Converted(via, text) == [via |-> via, text |-> text, kind |-> None]

AsStr ==
    /\ kpc = "kind"
    /\ kout' = Converted("as_str", as_str(kin))
    /\ kpc' = "converted"
    /\ UNCHANGED <<kin, hvars, cvars, lvars>>

AsRef ==
    /\ kpc = "kind"
    /\ kout' = Converted("as_ref", as_ref(kin))
    /\ kpc' = "converted"
    /\ UNCHANGED <<kin, hvars, cvars, lvars>>

\* <StaticFileSegment as Display>::fmt, through to_string().
Display ==
    /\ kpc = "kind"
    /\ kout' = Converted("to_string", to_string(kin))
    /\ kpc' = "converted"
    /\ UNCHANGED <<kin, hvars, cvars, lvars>>

\* from_str on a given text, or on the text a conversion has produced.
FromStr ==
    /\ kpc \in {"text", "converted"}
    /\ kout' = IF kpc = "text"
               THEN [via |-> "text", text |-> kin, kind |-> from_str(kin)]
               ELSE [kout EXCEPT !.kind = from_str(kout.text)]
    /\ kpc' = "from_str"
    /\ UNCHANGED <<kin, hvars, cvars, lvars>>

\* The answers of the two predicates collected so far.
Answers == IF kpc = "kind" THEN [block |-> None, tx |-> None] ELSE kout

IsBlockBased ==
    /\ kpc \in {"kind", "classified"}
    /\ Answers.block = None
    /\ kout' = [Answers EXCEPT !.block = Some(is_block_based(kin))]
    /\ kpc' = "classified"
    /\ UNCHANGED <<kin, hvars, cvars, lvars>>

IsTxBased ==
    /\ kpc \in {"kind", "classified"}
    /\ Answers.tx = None
    /\ kout' = [Answers EXCEPT !.tx = Some(is_tx_based(kin))]
    /\ kpc' = "classified"
    /\ UNCHANGED <<kin, hvars, cvars, lvars>>

\* Iterator::next on StaticFileSegment::iter().
IterNext ==
    /\ kpc = "iter"
    /\ kin # <<>>
    /\ kout' = Append(kout, Head(kin))
    /\ kin' = Tail(kin)
    /\ UNCHANGED <<kpc, hvars, cvars, lvars>>

LoadFromReader ==
    /\ kpc = "bytes"
    /\ kout' = load_from_reader(kin)
    /\ kpc' = "loaded"
    /\ UNCHANGED <<kin, hvars, cvars, lvars>>

KindNext ==
    \/ AsStr \/ AsRef \/ Display \/ FromStr
    \/ IsBlockBased \/ IsTxBased
    \/ IterNext
    \/ LoadFromReader

SpecKinds == KindInit /\ [][KindNext]_vars

\* ------------------------------------------------- DbTool::list

TableRow(key, value) == [key |-> key, value |-> value]

\* Raw rows: keys and values are byte strings.
Rows ==
    {TableRow(<<1>>, <<2>>), TableRow(<<2>>, <<1, 2>>),
     TableRow(<<2, 2>>, <<>>), TableRow(<<1, 2>>, <<2, 2>>)}

\* A table is the sequence of its rows in cursor order, each row once.
Tables ==
    UNION {{t \in [1..n -> Rows] : \A i, j \in 1..n : i # j => t[i] # t[j]} :
             n \in 0..MaxRows}

\* ListFilter.search
Searches == {<<>>, <<1>>, <<1, 2>>}

\* min_row_size, min_key_size, min_value_size
Thresholds == {<<0, 0, 0>>, <<3, 0, 0>>, <<0, 2, 0>>, <<0, 0, 1>>}

ListFilter ==
    {[skip |-> sk, len |-> ln, search |-> se, min_row_size |-> th[1],
      min_key_size |-> th[2], min_value_size |-> th[3], reverse |-> rv,
      only_count |-> oc] :
        sk \in 0..MaxSkip, ln \in 0..MaxLen, se \in Searches, th \in Thresholds,
        rv \in BOOLEAN, oc \in BOOLEAN}

has_search(f) == f.search # <<>>

\* BMByte::from: a searcher for a non-empty pattern, None for an empty one.
BMByte_from(pattern) == IF pattern = <<>> THEN None ELSE Some(pattern)

\* BMByte::find_first_in: the first position at which the pattern occurs.
find_first_in(searcher, text) ==
    LET at == {i \in 1..(Len(text) - Len(searcher) + 1) :
                 SubSeq(text, i, i + Len(searcher) - 1) = searcher}
    IN IF at = {} THEN None ELSE Some(CHOOSE i \in at : \A j \in at : i <= j)

RECURSIVE rev(_)
rev(t) == IF t = <<>> THEN <<>> ELSE Append(rev(Tail(t)), Head(t))

\* cursor.walk(None), or cursor.walk_back(None) when reverse is set.
walk(t, f) == IF f.reverse THEN rev(t) ELSE t

\* What map_filter does with one row: the row it yields if any, whether it
\* counted a hit, whether it ran the searcher.
Filtered(yielded, hit, ran) == [yielded |-> yielded, hit |-> hit, ran |-> ran]

\* The `result` closure of map_filter.
result(f, row) == IF f.only_count THEN None ELSE Some(row)

\* Mutant: the searcher run before the size thresholds are tested.
map_filter_search_first(f, row) ==
    LET bmb == BMByte_from(f.search)
        found == /\ bmb # None
                 /\ \/ find_first_in(bmb[1], row.value) # None
                    \/ find_first_in(bmb[1], row.key) # None
    IN IF Len(row.key) + Len(row.value) < f.min_row_size
          \/ Len(row.key) < f.min_key_size
          \/ Len(row.value) < f.min_value_size
       THEN Filtered(None, FALSE, bmb # None)
       ELSE IF bmb = None \/ found
       THEN Filtered(result(f, row), TRUE, bmb # None)
       ELSE Filtered(None, FALSE, TRUE)

map_filter(f, row) ==
    LET bmb == BMByte_from(f.search)
    IN IF Len(row.key) + Len(row.value) < f.min_row_size
       THEN Filtered(None, FALSE, FALSE)
       ELSE IF Len(row.key) < f.min_key_size
       THEN Filtered(None, FALSE, FALSE)
       ELSE IF Len(row.value) < f.min_value_size
       THEN Filtered(None, FALSE, FALSE)
       ELSE IF bmb # None
       THEN IF \/ find_first_in(bmb[1], row.value) # None
               \/ find_first_in(bmb[1], row.key) # None
            THEN Filtered(result(f, row), TRUE, TRUE)
            ELSE Filtered(None, FALSE, TRUE)
       ELSE Filtered(result(f, row), TRUE, FALSE)

\* One call of list on some table with some filter.
ListInit ==
    /\ HeaderIdle
    /\ CodecIdle
    /\ KindIdle
    /\ lpc = "call"
    /\ table \in Tables
    /\ filter \in ListFilter
    /\ cursor = 0
    /\ data = <<>>
    /\ hits = 0
    /\ searched = <<>>

\* The searcher is built and the cursor opened; an unusable search bails out.
Begin ==
    /\ lpc = "call"
    /\ lpc' = IF BMByte_from(filter.search) = None /\ has_search(filter)
              THEN "error"
              ELSE "walk"
    /\ UNCHANGED <<table, filter, cursor, data, hits, searched, hvars, cvars, kvars>>

\* The position of the next row: skip(n) drops the first n rows once.
NextRow == IF cursor = 0 THEN filter.skip + 1 ELSE cursor + 1

\* take(len) asks for a row only while fewer than len have been collected.
Wanted == Len(data) < filter.len /\ NextRow <= Len(table)

\* One row goes through skip, filter_map and take into the collected Vec.
Pull ==
    /\ lpc = "walk"
    /\ Wanted
    /\ LET out == map_filter(filter, walk(table, filter)[NextRow])
       IN /\ data' = IF out.yielded # None THEN Append(data, out.yielded[1]) ELSE data
          /\ hits' = IF out.hit THEN hits + 1 ELSE hits
          /\ searched' = IF out.ran THEN Append(searched, NextRow) ELSE searched
    /\ cursor' = NextRow
    /\ UNCHANGED <<lpc, table, filter, hvars, cvars, kvars>>

\* The walk is exhausted or len rows are collected: (data, hits) is returned.
Return ==
    /\ lpc = "walk"
    /\ ~Wanted
    /\ lpc' = "done"
    /\ UNCHANGED <<table, filter, cursor, data, hits, searched, hvars, cvars, kvars>>

ListNext == Begin \/ Pull \/ Return

SpecList == ListInit /\ [][ListNext]_vars

\* ======================================================== claims: the codec

\* The lowercase identifier of each kind (as_str).
LowercaseName(k) ==
    CASE k = "Headers"      -> <<"h","e","a","d","e","r","s">>
      [] k = "Transactions" -> <<"t","r","a","n","s","a","c","t","i","o","n","s">>
      [] k = "Receipts"     -> <<"r","e","c","e","i","p","t","s">>
      [] k = "BlockMeta"    -> <<"b","l","o","c","k","m","e","t","a">>

CompressionName(c) ==
    CASE c = "Lz4"                -> <<"l","z","4">>
      [] c = "Zstd"               -> <<"z","s","t","d">>
      [] c = "ZstdWithDictionary" -> <<"z","s","t","d","-","d","i","c","t">>

DecimalDigits == {"0","1","2","3","4","5","6","7","8","9"}

DigitNumber(c) ==
    CASE c = "0" -> 0 [] c = "1" -> 1 [] c = "2" -> 2 [] c = "3" -> 3 [] c = "4" -> 4
      [] c = "5" -> 5 [] c = "6" -> 6 [] c = "7" -> 7 [] c = "8" -> 8 [] c = "9" -> 9

\* The number a string of decimal digits denotes.
RECURSIVE DecimalValue(_)
DecimalValue(ds) ==
    IF ds = <<>> THEN 0
    ELSE DecimalValue(SubSeq(ds, 1, Len(ds) - 1)) * 10 + DigitNumber(ds[Len(ds)])

\* tok is the decimal numeral of n: digits only, no leading zero but "0" itself.
IsDecimalOf(tok, n) ==
    /\ tok # <<>>
    /\ \A i \in 1..Len(tok) : tok[i] \in DecimalDigits
    /\ Len(tok) = 1 \/ tok[1] # "0"
    /\ DecimalValue(tok) = n

Unsigned(tok) == IF tok # <<>> /\ tok[1] = "+" THEN Tail(tok) ELSE tok

\* tok denotes an unsigned integer: decimal digits, at least one, which
\* u64::from_str lets a single '+' precede.
IsUnsignedInteger(tok) ==
    /\ Unsigned(tok) # <<>>
    /\ \A i \in 1..Len(Unsigned(tok)) : Unsigned(tok)[i] \in DecimalDigits

AfterFilename == cpc = "parsed" /\ cin.src = "args" /\ cin.compression = None

AfterConfigured == cpc = "parsed" /\ cin.src = "args" /\ cin.compression # None

AfterRaw == cpc = "parsed" /\ cin.src = "raw"

\* C1, as stated: for every segment kind and every SegmentRangeInclusive value,
\* parse_filename(kind.filename(range)) returns Some((kind, range)).
C1_RoundTripEveryRange ==
    AfterFilename => parsed = Some(<<cin.segment, cin.range>>)

\* C1, amended: for every segment kind and every range with start <= end,
\* parse_filename(kind.filename(range)) returns Some((kind, range)); for a
\* range with start > end it returns None.
C1_RoundTrip ==
    AfterFilename =>
        IF cin.range.start <= cin.range.end
        THEN parsed = Some(<<cin.segment, cin.range>>)
        ELSE parsed = None

C1_Witness ==
    /\ AfterFilename
    /\ cin.segment = "Transactions"
    /\ cin.range = SegmentRangeInclusive_new(123, 1230)
    /\ parsed = Some(<<"Transactions", SegmentRangeInclusive_new(123, 1230)>>)

\* C2, as stated: for every kind, range and compression,
\* parse_filename(kind.filename_with_configuration(compression, range)) returns
\* the same Some((kind, range)) as parse_filename(kind.filename(range)).
C2_ConfiguredAlwaysSome ==
    AfterConfigured =>
        /\ parsed = Some(<<cin.segment, cin.range>>)
        /\ parsed = parse_filename(filename(cin.segment, cin.range))

\* C2, amended: parse_filename reads only the five leading tokens, so a name
\* with trailing tokens parses as its first five tokens do, and for every kind,
\* range and compression the configured name parses to the same result as the
\* plain name: Some((kind, range)) when start <= end, None otherwise.
C2_ConfigurationTolerance ==
    /\ AfterConfigured =>
          /\ parsed = parse_filename(filename(cin.segment, cin.range))
          /\ parsed = IF cin.range.start <= cin.range.end
                      THEN Some(<<cin.segment, cin.range>>) ELSE None
    /\ AfterRaw /\ Len(cin.tokens) > 5 =>
          parsed = parse_filename(join(SubSeq(cin.tokens, 1, 5)))

C2_Witness ==
    /\ AfterConfigured
    /\ cin.compression = Some("ZstdWithDictionary")
    /\ cin.range = SegmentRangeInclusive_new(2, 30)
    /\ parsed = Some(<<cin.segment, cin.range>>)

\* The names C3 lists: a wrong prefix, an unknown kind, a start or end that is
\* missing or no unsigned integer, a start greater than the end.
Unrecognised(t) ==
    \/ Len(t) < 2
    \/ t[1] # <<"s","t","a","t","i","c">>
    \/ t[2] # <<"f","i","l","e">>
    \/ Len(t) < 3
    \/ \A k \in StaticFileSegment : t[3] # LowercaseName(k)
    \/ Len(t) < 4
    \/ ~IsUnsignedInteger(t[4])
    \/ Len(t) < 5
    \/ ~IsUnsignedInteger(t[5])
    \/ DecimalValue(Unsigned(t[4])) > DecimalValue(Unsigned(t[5]))

\* C3: parse_filename returns None for every name whose first two tokens are
\* not "static" and "file", whose third token is no kind name, whose start or
\* end token is missing or is not an unsigned integer, or whose start is
\* greater than its end.
C3_RejectsMalformed ==
    AfterRaw /\ Unrecognised(cin.tokens) => parsed = None

C3_Witness ==
    /\ AfterRaw
    /\ cin.tokens = <<<<"s","t","a","t","i","c">>, <<"f","i","l","e">>,
                      <<"h","e","a","d","e","r","s">>, <<>>>>
    /\ name = <<"s","t","a","t","i","c","_","f","i","l","e","_",
                "h","e","a","d","e","r","s","_">>
    /\ parsed = None

\* C4: filename(kind, range) is exactly the tokens static, file, the kind's
\* lowercase name, the start and the end in decimal, joined by '_';
\* filename_with_configuration appends "_none_" and the compression name.
C4_FilenameFormat ==
    cpc \in {"named", "parsed"} /\ cin.src = "args" =>
        LET toks == split(name)
        IN /\ Len(toks) = IF cin.compression = None THEN 5 ELSE 7
           /\ toks[1] = <<"s","t","a","t","i","c">>
           /\ toks[2] = <<"f","i","l","e">>
           /\ toks[3] = LowercaseName(cin.segment)
           /\ IsDecimalOf(toks[4], cin.range.start)
           /\ IsDecimalOf(toks[5], cin.range.end)
           /\ cin.compression # None =>
                 /\ toks[6] = <<"n","o","n","e">>
                 /\ toks[7] = CompressionName(cin.compression[1])
           /\ (cin.segment = "Headers" /\ cin.range = SegmentRangeInclusive_new(2, 30)
               /\ cin.compression = None) =>
                 name = <<"s","t","a","t","i","c","_","f","i","l","e","_",
                          "h","e","a","d","e","r","s","_","2","_","3","0">>

C4_Witness ==
    /\ cpc = "named"
    /\ cin.src = "args"
    /\ cin.segment = "Headers"
    /\ cin.compression = Some("Lz4")
    /\ name = <<"s","t","a","t","i","c","_","f","i","l","e","_",
                "h","e","a","d","e","r","s","_","2","_","3","0","_",
                "n","o","n","e","_","l","z","4">>

\* ======================================================= claims: the header

\* The range prune acts on: block_range for block-based kinds, else tx_range.
Governing(seg, blocks, txs) == IF seg \in {"Headers", "BlockMeta"} THEN blocks ELSE txs

\* The first increment_block on an empty header starts the range at the
\* expected start S and returns S.
GrowthFirst ==
    op' = "increment_block" /\ block_range = None =>
        /\ ret' = Some(expected_block_range.start)
        /\ block_range' = Some([start |-> expected_block_range.start,
                                end |-> expected_block_range.start])

\* A later increment_block returns the previous end plus 1 and stores it.
GrowthLater ==
    op' = "increment_block" /\ block_range # None =>
        /\ ret' = Some(block_range[1].end + 1)
        /\ block_range' = Some([start |-> block_range[1].start,
                                end |-> block_range[1].end + 1])

\* C5, as stated: the first increment_block() returns S and sets [S, S]; each
\* later one returns the previous end plus 1, for every kind and every S.
C5_GrowthEveryStart == [][GrowthFirst /\ GrowthLater]_vars

\* C5, amended: the same, for as long as the end is below u64::MAX: after N
\* further calls with S + N <= u64::MAX block_range = [S, S + N]; at
\* end = u64::MAX the increment overflows (a panic, or a wrap to 0).
C5_Growth ==
    [][/\ GrowthFirst
       /\ block_range # None /\ block_range[1].end < U64_MAX => GrowthLater
       /\ op' = "increment_block" /\ block_range # None /\ block_range[1].end = U64_MAX
             => fault' # "none"
       /\ streak' >= 1 =>
             block_range' = Some([start |-> expected_block_range.start,
                                  end |-> expected_block_range.start + streak' - 1])]_vars

C5_Witness ==
    /\ op = "increment_block"
    /\ segment = "Receipts"
    /\ expected_block_range.start = 1
    /\ streak = 2
    /\ block_range = Some(SegmentRangeInclusive_new(1, 2))
    /\ ret = Some(2)

\* C6: prune(num) on the governing range: present and num > end - start, the
\* range becomes None; present and num <= end - start, its end becomes
\* end - num; absent, nothing changes.
C6_PruneGoverningRange ==
    [][op' = "prune" =>
          LET g == Governing(segment, block_range, tx_range)
              after == Governing(segment', block_range', tx_range')
          IN IF g = None THEN after = None
             ELSE IF num' > g[1].end - g[1].start THEN after = None
             ELSE after = Some([start |-> g[1].start, end |-> g[1].end - num'])]_vars

\* C6 on ranges with start <= end, where the subtraction cannot underflow.
C6_PruneWellFormed ==
    [][op' = "prune" =>
          LET g == Governing(segment, block_range, tx_range)
              after == Governing(segment', block_range', tx_range')
          IN IF g = None THEN after = None
             ELSE g[1].start <= g[1].end =>
                    IF num' > g[1].end - g[1].start THEN after = None
                    ELSE after = Some([start |-> g[1].start,
                                       end |-> g[1].end - num'])]_vars

\* C7: prune never fails: on every header new and the mutating operations can
\* build, prune(num) completes with no arithmetic underflow or overflow.
C7_PruneNeverFails == op = "prune" => fault = "none"

\* C8, as stated: a block-based header's tx_range is None and stays None under
\* increment_block, increment_tx, prune, set_block_range and set_tx_range.
C8_TxRangeStaysNone ==
    [][(segment \in {"Headers", "BlockMeta"} /\ tx_range = None) => tx_range' = None]_vars

\* C8, amended: a block-based header whose tx_range is None (as new left it)
\* keeps it None under increment_block, increment_tx, prune and
\* set_block_range; set_tx_range populates it whatever the kind.
C8_TxRangeNoneUnlessSet ==
    [][/\ segment \in {"Headers", "BlockMeta"} /\ tx_range = None
             /\ op' # "set_tx_range" => tx_range' = None
       /\ op' = "set_tx_range" => tx_range' # None]_vars

C8_Witness ==
    /\ segment = "Headers"
    /\ op = "increment_tx"
    /\ tx_range = None
    /\ block_range = None

\* C9: the expected range and the kind are set at creation and no operation
\* changes them.
C9_ExpectedRangeFixed ==
    [][/\ expected_block_range'.start = expected_block_range.start
       /\ expected_block_range'.end = expected_block_range.end
       /\ segment' = segment]_vars

C9_Witness ==
    /\ op = "set_block_range"
    /\ expected_block_range = SegmentRangeInclusive_new(0, 1)
    /\ block_range = Some(SegmentRangeInclusive_new(2, 2))

\* C10: increment_tx() on a block-based header changes nothing: tx_range,
\* block_range and the expected range stay as they were.
C10_IncrementTxNoOp ==
    [][op' = "increment_tx" /\ segment \in {"Headers", "BlockMeta"} =>
          /\ tx_range' = tx_range
          /\ block_range' = block_range
          /\ expected_block_range' = expected_block_range
          /\ segment' = segment
          /\ fault' = "none"]_vars

C10_Witness ==
    /\ segment = "BlockMeta"
    /\ op = "increment_tx"
    /\ tx_range = None
    /\ block_range = Some(SegmentRangeInclusive_new(1, 2))

\* increment_tx on a transaction-based header whose tx_range is None.
TxFirst ==
    (op' = "increment_tx" /\ segment \in {"Transactions", "Receipts"} /\ tx_range = None) =>
        /\ tx_range' = Some([start |-> 0, end |-> 0])
        /\ block_range' = block_range

\* increment_tx on a transaction-based header whose tx_range is present.
TxLater ==
    (op' = "increment_tx" /\ segment \in {"Transactions", "Receipts"} /\ tx_range # None) =>
        /\ tx_range' = Some([start |-> tx_range[1].start, end |-> tx_range[1].end + 1])
        /\ block_range' = block_range

\* C11, as stated: on a transaction-based kind increment_tx() sets tx_range to
\* [0, 0] when it is None, whatever the expected block start, and otherwise
\* increases its end by exactly 1; block_range is not changed.
C11_IncrementTxEveryEnd == [][TxFirst /\ TxLater]_vars

\* C11, amended: the same, for a present tx_range whose end is below u64::MAX;
\* at end = u64::MAX the increment overflows (a panic, or a wrap to 0), and
\* block_range is unchanged in every case.
C11_IncrementTx ==
    [][/\ TxFirst
       /\ (tx_range # None /\ tx_range[1].end < U64_MAX) => TxLater
       /\ (op' = "increment_tx" /\ segment \in {"Transactions", "Receipts"}
              /\ tx_range # None /\ tx_range[1].end = U64_MAX) => fault' # "none"
       /\ op' = "increment_tx" => block_range' = block_range]_vars

C11_Witness ==
    /\ op = "increment_tx"
    /\ segment = "Transactions"
    /\ expected_block_range.start = 1
    /\ tx_range = Some(SegmentRangeInclusive_new(0, 0))
    /\ block_range = Some(SegmentRangeInclusive_new(1, 1))

\* C12: prune(num) never changes the start of a range that remains present and
\* never changes the range that does not govern the kind.
C12_PruneOnlyTail ==
    [][op' = "prune" =>
          /\ (segment \in {"Headers", "BlockMeta"}) => tx_range' = tx_range
          /\ (segment \in {"Transactions", "Receipts"}) => block_range' = block_range
          /\ (block_range # None /\ block_range' # None) =>
                block_range'[1].start = block_range[1].start
          /\ (tx_range # None /\ tx_range' # None) =>
                tx_range'[1].start = tx_range[1].start
          /\ (block_range = None => block_range' = None)
          /\ (tx_range = None => tx_range' = None)]_vars

C12_Witness ==
    /\ op = "prune"
    /\ num = 1
    /\ segment = "Receipts"
    /\ tx_range = Some(SegmentRangeInclusive_new(1, 1))
    /\ block_range = Some(SegmentRangeInclusive_new(0, 2))

\* The inclusive element count of a present range with start <= end, returned
\* by a call that completed without overflow; None for an absent range.
LenReturned(r) ==
    IF r = None
    THEN ret = None /\ fault = "none"
    ELSE r[1].start <= r[1].end =>
            (ret = Some(r[1].end - r[1].start + 1) /\ fault = "none")

\* C13, as stated: block_len() and tx_len() return None when the range is
\* absent, and otherwise exactly end - start + 1 for every present range with
\* start <= end over the full u64 domain, end = u64::MAX included.
C13_LenFullDomain ==
    /\ op = "block_len" => LenReturned(block_range)
    /\ op = "tx_len" => LenReturned(tx_range)

\* The start of an optional range.
StartOf(r) == IF r = None THEN None ELSE Some(r[1].start)

\* C14: start() returns block_start() for block-based kinds and tx_start() for
\* transaction-based kinds; for a transaction-based header with block_range
\* present and tx_range absent it returns None.
C14_StartDispatch ==
    op = "start" =>
        /\ fault = "none"
        /\ segment \in {"Headers", "BlockMeta"} => ret = StartOf(block_range)
        /\ segment \in {"Transactions", "Receipts"} => ret = StartOf(tx_range)
        /\ (segment \in {"Transactions", "Receipts"} /\ block_range # None
               /\ tx_range = None) => ret = None

C14_Witness ==
    /\ op = "start"
    /\ segment = "Receipts"
    /\ block_range = Some(SegmentRangeInclusive_new(1, 2))
    /\ tx_range = None
    /\ ret = None

\* ======================================================== claims: the kinds

\* C15: iter() yields exactly the four kinds in the order Headers, BlockMeta,
\* Transactions, Receipts, BlockMeta always before Transactions; the order is
\* neither the declaration order of the enum nor alphabetical.
C15_KindOrder ==
    kpc = "iter" =>
        /\ kout \o kin = <<"Headers", "BlockMeta", "Transactions", "Receipts">>
        /\ \A i \in 1..Len(kout) :
              kout[i] = "Transactions" => \E j \in 1..(i - 1) : kout[j] = "BlockMeta"
        /\ kout \o kin # <<"Headers", "Transactions", "Receipts", "BlockMeta">>
        /\ kout \o kin # <<"BlockMeta", "Headers", "Receipts", "Transactions">>

C15_Witness ==
    /\ kpc = "iter"
    /\ kin = <<>>
    /\ Len(kout) = 4
    /\ kout[3] = "Transactions"

\* Headers whose ranges leave room for one more row and one row to remove.
SampleHeaders(k) ==
    {SegmentHeader_new(SegmentRangeInclusive_new(0, 0), Some(b), Some(t), k) :
        b \in {r \in Ranges : r.start < r.end}, t \in {r \in Ranges : r.start < r.end}}

\* C16: every kind is exactly one of block-based or transaction-based, with
\* {Headers, BlockMeta} block-based and {Transactions, Receipts}
\* transaction-based, so prune, start and increment_tx, which test one
\* predicate and fall through to the other range, pick the governing range.
C16_Partition ==
    kpc = "classified" =>
        /\ kout.block # None => kout.block[1] = (kin \in {"Headers", "BlockMeta"})
        /\ kout.tx # None => kout.tx[1] = (kin \in {"Transactions", "Receipts"})
        /\ (kout.block # None /\ kout.tx # None) => kout.block[1] = ~kout.tx[1]
        /\ \A h \in SampleHeaders(kin) :
              IF kin \in {"Headers", "BlockMeta"}
              THEN /\ SegmentHeader_start(h).ret = Some(h.block_range[1].start)
                   /\ prune(h, 1).hdr.tx_range = h.tx_range
                   /\ prune(h, 1).hdr.block_range[1].end = h.block_range[1].end - 1
                   /\ increment_tx(h).hdr = h
              ELSE /\ SegmentHeader_start(h).ret = Some(h.tx_range[1].start)
                   /\ prune(h, 1).hdr.block_range = h.block_range
                   /\ prune(h, 1).hdr.tx_range[1].end = h.tx_range[1].end - 1
                   /\ increment_tx(h).hdr.block_range = h.block_range

C16_Witness ==
    /\ kpc = "classified"
    /\ kin = "BlockMeta"
    /\ kout = [block |-> Some(TRUE), tx |-> Some(FALSE)]

\* C17, as stated: as_str, AsRef<str> and Display/to_string all yield the same
\* lowercase identifier (headers, transactions, receipts, blockmeta), and
\* from_str on that identifier returns the same kind.
C17_OneIdentifier ==
    /\ kpc = "converted" => kout.text = LowercaseName(kin)
    /\ (kpc = "from_str" /\ kout.via # "text") =>
          (kout.text = LowercaseName(kin) /\ kout.kind = Some(kin))

\* The header a stored jar is expected to give back.
Stored(expected, blocks, txs, seg) ==
    Some([expected_block_range |-> expected, block_range |-> blocks,
          tx_range |-> txs, segment |-> seg])

Span(first, last) == [start |-> first, end |-> last]

\* C18: the three historical byte sequences deserialize to headers with
\* expected_block_range = [0, 499999]; Headers has block_range [0, 499999] and
\* no tx_range, Transactions has block_range [0, 499999] and tx_range
\* [0, 500020], Receipts has block_range [0, 0] and no tx_range; each optional
\* range is preceded by its presence flag, block_range before tx_range.
C18_BinaryFixtures ==
    kpc = "loaded" =>
        /\ kin = fixture_headers =>
              kout = Stored(Span(0, 499999), Some(Span(0, 499999)), None, "Headers")
        /\ kin = fixture_transactions =>
              kout = Stored(Span(0, 499999), Some(Span(0, 499999)),
                            Some(Span(0, 500020)), "Transactions")
        /\ kin = fixture_receipts =>
              kout = Stored(Span(0, 499999), Some(Span(0, 0)), None, "Receipts")
        /\ kout # None =>
              /\ (kin[25] = 1) = (kout[1].block_range # None)
              /\ (kin[IF kin[25] = 1 THEN 42 ELSE 26] = 1) = (kout[1].tx_range # None)

C18_Witness ==
    /\ kpc = "loaded"
    /\ kin = fixture_transactions
    /\ kout # None
    /\ kout[1].tx_range = Some(Span(0, 500020))
    /\ kout[1].segment = "Transactions"

\* ==================================================== claims: DbTool::list

\* The rows in the order of the walk: backward when reverse is set.
Walked == [i \in 1..Len(table) |-> IF filter.reverse THEN table[Len(table) + 1 - i]
                                                     ELSE table[i]]

\* The positions of the walk taken so far: those after the first `skip`.
Visited == IF cursor = 0 THEN {} ELSE (filter.skip + 1)..cursor

PassesSizes(row) ==
    /\ Len(row.key) + Len(row.value) >= filter.min_row_size
    /\ Len(row.key) >= filter.min_key_size
    /\ Len(row.value) >= filter.min_value_size

Occurs(pattern, text) ==
    \E i \in 0..(Len(text) - Len(pattern)) :
        \A j \in 1..Len(pattern) : text[i + j] = pattern[j]

\* The pattern occurs in the key or in the value (no pattern: every row).
Matches(row) ==
    filter.search = <<>> \/ Occurs(filter.search, row.key) \/ Occurs(filter.search, row.value)

\* The positions after `skip` whose rows qualify.
Qualifying ==
    {i \in (filter.skip + 1)..Len(table) : PassesSizes(Walked[i]) /\ Matches(Walked[i])}

\* The positions of a set in ascending order.
Ascending(S) == SelectSeq([i \in 1..Len(table) |-> i], LAMBDA i : i \in S)

Min(a, b) == IF a < b THEN a ELSE b

\* Paging is skip then take: only rows after the first `skip` are looked at,
\* the qualifying ones are collected in walk order, at most `len` of them.
Paging ==
    /\ data = IF filter.only_count THEN <<>>
              ELSE [n \in 1..Cardinality(Visited \cap Qualifying) |->
                      Walked[Ascending(Visited \cap Qualifying)[n]]]
    /\ Len(data) <= filter.len
    /\ (lpc = "done" /\ ~filter.only_count) =>
          Len(data) = Min(filter.len, Cardinality(Qualifying))

\* C19, as stated: the byte search (pattern in key or value) is applied before
\* the size thresholds, so every row taken from the walk is searched; paging
\* is skip then take, at most len qualifying rows in walk order.
C19_SearchBeforeThresholds ==
    lpc \in {"walk", "done"} =>
        /\ has_search(filter) => searched = Ascending(Visited)
        /\ Paging

\* C19, amended: the size thresholds are applied before the byte search, so
\* only rows that pass the three thresholds are searched; a row qualifies when
\* it passes them and the pattern occurs in its key or value; paging is skip
\* then take, at most len qualifying rows in walk order.
C19_ThresholdsBeforeSearch ==
    lpc \in {"walk", "done"} =>
        /\ searched = IF has_search(filter)
                      THEN Ascending({i \in Visited : PassesSizes(Walked[i])})
                      ELSE <<>>
        /\ Paging

C19_Witness ==
    /\ lpc = "done"
    /\ filter.skip = 1
    /\ filter.reverse
    /\ ~filter.only_count
    /\ filter.search = <<1, 2>>
    /\ Len(data) = 1
    /\ Len(searched) = 1
    /\ cursor = 3
    /\ Cardinality(Qualifying) = 1

\* ================================================ claims: rows and lengths

\* prune(k) after m increment_block calls on a block-based header whose
\* block_range was None: streak holds m.
PruneAfterBlocks ==
    (op' = "prune" /\ segment \in {"Headers", "BlockMeta"} /\ streak > 0) =>
        /\ <<expected_block_range', tx_range', segment'>> =
              <<expected_block_range, tx_range, segment>>
        /\ IF num' >= streak
           THEN block_range' = None
           ELSE block_len(self').ret = Some(streak - num')

\* prune(k) after m increment_tx calls on a transaction-based header whose
\* tx_range was None: the calls have left tx_range = [0, m - 1].
PruneAfterTxs ==
    (op' = "prune" /\ segment \in {"Transactions", "Receipts"}
        /\ tx_range # None /\ tx_range[1].start = 0) =>
        /\ <<expected_block_range', block_range', segment'>> =
              <<expected_block_range, block_range, segment>>
        /\ IF num' >= tx_range[1].end + 1
           THEN tx_range' = None
           ELSE tx_len(self').ret = Some(tx_range[1].end + 1 - num')

\* C20, as stated: on a block-based header created with block_range = None,
\* m >= 1 increment_block() calls followed by prune(m) give back the initial
\* header, while prune(k) with k < m leaves block_len() = m - k; an
\* increment_block() after a collapse returns expected_block_start again; the
\* same holds for tx_range with increment_tx on a transaction-based header.
C20_RowsAppendedMinusPruned ==
    [][/\ PruneAfterBlocks
       /\ PruneAfterTxs
       /\ (op' = "increment_block" /\ block_range = None) =>
             ret' = Some(expected_block_range.start)]_vars

\* ============================================ claims: headers from empty

\* Every range that is present has start <= end.
WellFormed ==
    /\ block_range # None => block_range[1].start <= block_range[1].end
    /\ tx_range # None => tx_range[1].start <= tx_range[1].end

\* Every end that is present is below u64::MAX.
EndsBelowMax ==
    /\ block_range # None => block_range[1].end < U64_MAX
    /\ tx_range # None => tx_range[1].end < U64_MAX

\* C21: from a header created by new with block_range = None and tx_range =
\* None, every increment_block, increment_tx or prune call made while the ends
\* are below the u64 maximum leaves every present range with start <= end.
C21_StartNotAfterEnd ==
    [][(WellFormed /\ EndsBelowMax
           /\ op' \in {"increment_block", "increment_tx", "prune"})
          => (WellFormed' /\ fault' = "none")]_vars

C21_Witness ==
    /\ op = "prune"
    /\ num = 1
    /\ segment = "Transactions"
    /\ tx_range = Some(SegmentRangeInclusive_new(0, 0))
    /\ block_range = Some(SegmentRangeInclusive_new(1, 2))
    /\ fault = "none"

\* C22: from a header created by new with block_range = None and tx_range =
\* None, after any sequence of increment_block, increment_tx and prune calls
\* block_start() is None or expected_block_start() and tx_start() is None or
\* 0: without set_block_range and set_tx_range the starts never differ.
C22_StartsFixed ==
    /\ block_range # None => block_range[1].start = expected_block_range.start
    /\ tx_range # None => tx_range[1].start = 0
    /\ op = "block_start" =>
          /\ ret \in {None, Some(expected_block_range.start)}
          /\ ret = None <=> block_range = None
    /\ op = "tx_start" =>
          /\ ret \in {None, Some(0)}
          /\ ret = None <=> tx_range = None

C22_Witness ==
    /\ op = "block_start"
    /\ ret = Some(1)
    /\ expected_block_range.start = 1
    /\ block_range = Some(SegmentRangeInclusive_new(1, 2))
    /\ tx_range = Some(SegmentRangeInclusive_new(0, 1))

\* ============================================== claims: the match count

\* C23, as stated: when only_count is set the returned list is empty and the
\* count is the number of all rows after `skip` that pass the size thresholds
\* and the search, regardless of len; when only_count is not set the scan
\* stops once len rows are collected, so the count is the number of rows
\* returned (at most len, 0 when len = 0), not the total number of matches.
C23_MatchCount ==
    lpc = "done" =>
        IF filter.only_count
        THEN data = <<>> /\ hits = Cardinality(Qualifying)
        ELSE /\ hits = Len(data)
             /\ hits = Min(filter.len, Cardinality(Qualifying))

====
